---- MODULE Spec2Model ----
(***************************************************************************)
(* Model of the Sonic 3 A.I.R. auto splitter (src/src/lib.rs): the         *)
(* attach / tick loop of main, the watcher derivation of update_loop and   *)
(* the three decision predicates start, split and reset.                   *)
(***************************************************************************)
EXTENDS Integers, Sequences, FiniteSets, TLC

VARIABLES pc, watchers, settings, timer, tick

vars == <<pc, watchers, settings, timer, tick>>

(***************************************************************************)
(* Program constants (lib.rs 372-378).                                     *)
(***************************************************************************)
STATE_SAVESELECT == 76
STATE_LOADING == 140
STATE_INGAME == 12
SAVESLOTSTATE_NEWGAME == 128
SAVESLOTSTATE_INPROGRESS == 0

\* enum Levels (lib.rs 341-369)
Levels ==
    { "AngelIslandAct1", "AngelIslandAct2", "HydrocityAct1", "HydrocityAct2",
      "MarbleGardenAct1", "MarbleGardenAct2", "CarnivalNightAct1",
      "CarnivalNightAct2", "IceCapAct1", "IceCapAct2", "LaunchBaseAct1",
      "LaunchBaseAct2", "MushroomHillAct1", "MushroomHillAct2",
      "FlyingBatteryAct1", "FlyingBatteryAct2", "SandopolisAct1",
      "SandopolisAct2", "LavaReefAct1", "LavaReefAct2", "HiddenPalace",
      "SkySanctuary", "DeathEggAct1", "DeathEggAct2", "DoomsDay", "Ending" }

\* enum asr::timer::TimerState as main uses it (lib.rs 49-58)
TimerState == { "NotRunning", "Running", "Paused", "Ended" }

\* struct Settings (lib.rs 80-172): the names of its boolean fields
SettingNames ==
    { "start_nosave", "start_clean_save", "start_no_clean_save",
      "start_new_game_plus", "reset",
      "angel_island_1", "angel_island_2", "hydrocity_1", "hydrocity_2",
      "marble_garden_1", "marble_garden_2", "carnival_night_1",
      "carnival_night_2", "ice_cap_1", "ice_cap_2", "launch_base_1",
      "launch_base_2", "mushroom_hill_1", "mushroom_hill_2",
      "flying_battery_1", "flying_battery_2", "sandopolis_1", "sandopolis_2",
      "lava_reef_1", "lava_reef_2", "hidden_palace", "sky_sanctuary",
      "death_egg_1", "death_egg_2", "doomsday" }

\* Settings::register() with every #[default = true], except the toggles
\* in D, which the user has switched off.
SettingsWith(D) == [f \in SettingNames |-> f \notin D]

(***************************************************************************)
(* asr::watcher::Watcher<T>: pair is None, or Some(Pair {old, current}).   *)
(***************************************************************************)
None == [some |-> FALSE]

Some(o, c) == [some |-> TRUE, old |-> o, current |-> c]

\* update_infallible that never shifts current into old
update_infallible_KeepOld(w, value) ==
    IF w.some THEN Some(w.old, value) ELSE Some(value, value)

\* Watcher::update_infallible: the first value fills both old and current
update_infallible(w, value) ==
    IF w.some THEN Some(w.current, value) ELSE Some(value, value)

\* Pair::changed
changed(p) == p.old # p.current

\* Watchers::default() (lib.rs 68-78, 32)
WatchersDefault ==
    [ levelid |-> None, state |-> None, end_of_level_flag |-> None,
      game_ending_flag |-> None, time_bonus |-> None, save_select |-> None,
      zone_select |-> None, save_slot |-> None ]

(***************************************************************************)
(* Memory reads.  A read is <<>> when process.read fails and <<b>> (or     *)
(* <<b0, b1>> for the 16-bit one, bytes in address order) when it works.   *)
(***************************************************************************)
\* process.read::<u8>(..).ok().unwrap_or_default()
ReadU8(r) == IF r = <<>> THEN 0 ELSE r[1]

\* process.read::<u16>(..).ok().unwrap_or_default(): little-endian target
ReadU16(r) == IF r = <<>> THEN 0 ELSE r[1] + 256 * r[2]

\* FromEndian::from_be on a little-endian target: swap the two bytes
from_be(x) == (x % 256) * 256 + (x \div 256)

\* temp_act + temp_zone * 10 in u8 arithmetic, wrapping (overflow checks off)
CompositeCode(temp_act, temp_zone) == (temp_act + ((temp_zone * 10) % 256)) % 256

\* the same expression leaves the u8 range (a panic with overflow checks on)
Overflows(temp_act, temp_zone) ==
    \/ temp_zone * 10 > 255
    \/ temp_act + temp_zone * 10 > 255

\* CodeZeroArm without the level-started test
CodeZeroArm_Always(level_started, act) == "AngelIslandAct1"

\* the arm of composite code 0 (lib.rs 205)
CodeZeroArm(level_started, act) ==
    IF level_started # 0 THEN "AngelIslandAct1" ELSE act

\* LevelOfCode with code 220 given to Hidden Palace
LevelOfCode_HiddenPalace220(code, level_started, act) ==
    CASE code = 0 -> CodeZeroArm(level_started, act)
      [] code = 1 -> "AngelIslandAct2"
      [] code = 10 -> "HydrocityAct1"
      [] code = 11 -> "HydrocityAct2"
      [] code = 20 -> "MarbleGardenAct1"
      [] code = 21 -> "MarbleGardenAct2"
      [] code = 30 -> "CarnivalNightAct1"
      [] code = 31 -> "CarnivalNightAct2"
      [] code = 50 -> "IceCapAct1"
      [] code = 51 -> "IceCapAct2"
      [] code = 60 -> "LaunchBaseAct1"
      [] code = 61 -> "LaunchBaseAct2"
      [] code = 70 -> "MushroomHillAct1"
      [] code = 71 -> "MushroomHillAct2"
      [] code = 40 -> "FlyingBatteryAct1"
      [] code = 41 -> "FlyingBatteryAct2"
      [] code = 80 -> "SandopolisAct1"
      [] code = 81 -> "SandopolisAct2"
      [] code = 90 -> "LavaReefAct1"
      [] code = 91 -> "LavaReefAct2"
      [] code \in {220, 221} -> "HiddenPalace"
      [] code \in {100, 101} -> "SkySanctuary"
      [] code = 110 -> "DeathEggAct1"
      [] code \in {111, 230} -> "DeathEggAct2"
      [] code = 120 -> "DoomsDay"
      [] code = 131 -> "Ending"
      [] OTHER -> act

\* the match of lib.rs 204-232
LevelOfCode(code, level_started, act) ==
    CASE code = 0 -> CodeZeroArm(level_started, act)
      [] code = 1 -> "AngelIslandAct2"
      [] code = 10 -> "HydrocityAct1"
      [] code = 11 -> "HydrocityAct2"
      [] code = 20 -> "MarbleGardenAct1"
      [] code = 21 -> "MarbleGardenAct2"
      [] code = 30 -> "CarnivalNightAct1"
      [] code = 31 -> "CarnivalNightAct2"
      [] code = 50 -> "IceCapAct1"
      [] code = 51 -> "IceCapAct2"
      [] code = 60 -> "LaunchBaseAct1"
      [] code = 61 -> "LaunchBaseAct2"
      [] code = 70 -> "MushroomHillAct1"
      [] code = 71 -> "MushroomHillAct2"
      [] code = 40 -> "FlyingBatteryAct1"
      [] code = 41 -> "FlyingBatteryAct2"
      [] code = 80 -> "SandopolisAct1"
      [] code = 81 -> "SandopolisAct2"
      [] code = 90 -> "LavaReefAct1"
      [] code \in {91, 220} -> "LavaReefAct2"
      [] code = 221 -> "HiddenPalace"
      [] code \in {100, 101} -> "SkySanctuary"
      [] code = 110 -> "DeathEggAct1"
      [] code \in {111, 230} -> "DeathEggAct2"
      [] code = 120 -> "DoomsDay"
      [] code = 131 -> "Ending"
      [] OTHER -> act

\* save_select > 0 && save_select <= 8 (lib.rs 185, 192)
SlotInRange(save_select) == save_select > 0 /\ save_select <= 8

\* FilteredState taking the raw byte on every tick
FilteredState_Raw(cstate, state0) == cstate

\* the filtered state (lib.rs 177, 182-183)
FilteredState(cstate, state0) == IF cstate # STATE_INGAME THEN cstate ELSE state0

\* ReadsSaveSlot without the in-game test
ReadsSaveSlot_InGameToo(cstate, save_select) == SlotInRange(save_select)

\* the save-slot status is read (lib.rs 182, 185)
ReadsSaveSlot(cstate, save_select) ==
    cstate # STATE_INGAME /\ SlotInRange(save_select)

\* fn update_loop (lib.rs 174-243)
update_loop(w, mem) ==
    LET state0 == IF w.state.some THEN w.state.current ELSE 0
        save_slot0 == IF w.save_slot.some THEN w.save_slot.current ELSE 0
        save_select == ReadU8(mem.save_select)
        cstate == ReadU8(mem.state)
        state == FilteredState(cstate, state0)
        save_slot ==
            IF ReadsSaveSlot(cstate, save_select)
            THEN ReadU8(mem.save_slots[save_select])
            ELSE save_slot0
        zone_select0 == IF w.zone_select.some THEN w.zone_select.current ELSE 0
        zone_select ==
            IF SlotInRange(save_select)
            THEN ReadU8(mem.zone_selects[save_select])
            ELSE zone_select0
        act0 == IF w.levelid.some THEN w.levelid.current ELSE "AngelIslandAct1"
        temp_act == ReadU8(mem.act)
        temp_zone == ReadU8(mem.zone)
        act == LevelOfCode(CompositeCode(temp_act, temp_zone),
                           ReadU8(mem.level_started), act0)
    IN  [ levelid |-> update_infallible(w.levelid, act),
          state |-> update_infallible(w.state, state),
          end_of_level_flag |->
              update_infallible(w.end_of_level_flag, ReadU8(mem.end_of_level) # 0),
          game_ending_flag |->
              update_infallible(w.game_ending_flag, ReadU8(mem.game_ending) # 0),
          time_bonus |->
              update_infallible(w.time_bonus, from_be(ReadU16(mem.time_bonus))),
          save_select |-> update_infallible(w.save_select, save_select),
          zone_select |-> update_infallible(w.zone_select, zone_select),
          save_slot |-> update_infallible(w.save_slot, save_slot) ]

\* What the game's memory held at the addresses of a tick's update_loop:
\* the raw bytes, -1 for a per-slot byte when the selection index names no
\* slot, and whether every read failed.
Reads(mem) ==
    LET save_select == ReadU8(mem.save_select)
        cstate == ReadU8(mem.state)
    IN  [ cstate |-> cstate,
          save_select |-> save_select,
          save_slot |-> IF SlotInRange(save_select)
                        THEN ReadU8(mem.save_slots[save_select]) ELSE -1,
          zone_select |-> IF SlotInRange(save_select)
                          THEN ReadU8(mem.zone_selects[save_select]) ELSE -1,
          act |-> ReadU8(mem.act),
          zone |-> ReadU8(mem.zone),
          level_started |-> ReadU8(mem.level_started),
          failed |-> \A f \in {"state", "save_select", "act", "zone",
                               "level_started", "end_of_level", "game_ending",
                               "time_bonus"} : mem[f] = <<>> ]

\* no read made yet
NoRead ==
    [ cstate |-> 0, save_select |-> 0, save_slot |-> -1, zone_select |-> -1,
      act |-> 0, zone |-> 0, level_started |-> 0, failed |-> FALSE ]

\* LoadingFromSaveSelect without the test of the previous state
LoadingFromSaveSelect_NoOld(state) == state.current = STATE_LOADING

\* the filtered state went from save select to loading (lib.rs 248, 329)
LoadingFromSaveSelect(state) ==
    state.old = STATE_SAVESELECT /\ state.current = STATE_LOADING

(***************************************************************************)
(* The decision predicates.                                                *)
(***************************************************************************)
\* NoSaveSelected reading the previous sample
NoSaveSelected_Old(save_select) == save_select.old = 0

\* save_select.current == 0 (lib.rs 251)
NoSaveSelected(save_select) == save_select.current = 0

\* fn start (lib.rs 245-269).  Line 257 binds save_slot to
\* watchers.save_select.pair, so the status tests read the selection index.
start(w, s) ==
    IF ~w.state.some THEN FALSE
    ELSE IF LoadingFromSaveSelect(w.state)
    THEN IF ~w.save_select.some THEN FALSE
         ELSE IF NoSaveSelected(w.save_select) THEN s.start_nosave
         ELSE IF ~w.zone_select.some THEN FALSE
         ELSE IF w.zone_select.current = 0
         THEN LET save_slot == w.save_select
              IN  IF ~save_slot.some THEN FALSE
                  ELSE IF save_slot.old = SAVESLOTSTATE_INPROGRESS
                  THEN s.start_no_clean_save
                  ELSE IF save_slot.old = SAVESLOTSTATE_NEWGAME
                  THEN s.start_clean_save
                  ELSE IF s.start_new_game_plus THEN TRUE
                  ELSE FALSE
         ELSE FALSE
    ELSE FALSE

\* AngelIsland1Arm reading the current end-of-level flag
AngelIsland1Arm_Current(s, end_level_flag) ==
    s.angel_island_1 /\ end_level_flag.current

\* the Angel Island Act 1 arm of the match (lib.rs 295)
AngelIsland1Arm(s, end_level_flag) == s.angel_island_1 /\ end_level_flag.old

\* the match on act.old of lib.rs 294-321
ZoneSetting(old, s, end_level_flag) ==
    CASE old = "AngelIslandAct1" -> AngelIsland1Arm(s, end_level_flag)
      [] old = "AngelIslandAct2" -> s.angel_island_2
      [] old = "HydrocityAct1" -> s.hydrocity_1
      [] old = "HydrocityAct2" -> s.hydrocity_2
      [] old = "MarbleGardenAct1" -> s.marble_garden_1
      [] old = "MarbleGardenAct2" -> s.marble_garden_2
      [] old = "CarnivalNightAct1" -> s.carnival_night_1
      [] old = "CarnivalNightAct2" -> s.carnival_night_2
      [] old = "IceCapAct1" -> s.ice_cap_1
      [] old = "IceCapAct2" -> s.ice_cap_2
      [] old = "LaunchBaseAct1" -> s.launch_base_1
      [] old = "LaunchBaseAct2" -> s.launch_base_2
      [] old = "MushroomHillAct1" -> s.mushroom_hill_1
      [] old = "MushroomHillAct2" -> s.mushroom_hill_2
      [] old = "FlyingBatteryAct1" -> s.flying_battery_1
      [] old = "FlyingBatteryAct2" -> s.flying_battery_2
      [] old = "SandopolisAct1" -> s.sandopolis_1
      [] old = "SandopolisAct2" -> s.sandopolis_2
      [] old = "LavaReefAct1" -> s.lava_reef_1
      [] old = "LavaReefAct2" -> s.lava_reef_2
      [] old = "HiddenPalace" -> s.hidden_palace
      [] old = "SkySanctuary" -> s.sky_sanctuary
      [] old = "DeathEggAct1" -> s.death_egg_1
      [] old = "DeathEggAct2" -> s.death_egg_2
      [] old = "DoomsDay" -> s.doomsday
      [] OTHER -> FALSE

\* IsAngelIsland1 reading the previous zone
IsAngelIsland1_Old(act) == act.old = "AngelIslandAct1"

\* act.current == Levels::AngelIslandAct1 (lib.rs 276)
IsAngelIsland1(act) == act.current = "AngelIslandAct1"

\* SkySanctuaryRule without the test of the previous flag
SkySanctuaryRule_NoOld(w, s) ==
    /\ s.sky_sanctuary
    /\ w.levelid.current = "SkySanctuary"
    /\ w.game_ending_flag.current

\* the condition of the Sky Sanctuary ending trigger (lib.rs 280)
SkySanctuaryRule(w, s) ==
    /\ s.sky_sanctuary
    /\ w.levelid.current = "SkySanctuary"
    /\ w.game_ending_flag.current
    /\ ~w.game_ending_flag.old

\* DeathEggRule without the end-of-level test
DeathEggRule_NoFlag(w, s) ==
    /\ s.death_egg_2
    /\ w.levelid.old = "DeathEggAct2"
    /\ w.time_bonus.old # 0
    /\ w.time_bonus.current = 0

\* DeathEggRule reading the previous end-of-level flag
DeathEggRule_OldFlag(w, s) ==
    /\ s.death_egg_2
    /\ w.levelid.old = "DeathEggAct2"
    /\ w.time_bonus.old # 0
    /\ w.time_bonus.current = 0
    /\ w.end_of_level_flag.old

\* the condition of the Death Egg Act 2 trigger (lib.rs 288)
DeathEggRule(w, s) ==
    /\ s.death_egg_2
    /\ w.levelid.old = "DeathEggAct2"
    /\ w.time_bonus.old # 0
    /\ w.time_bonus.current = 0
    /\ w.end_of_level_flag.current

\* fn split (lib.rs 271-322)
split(w, s) ==
    IF ~w.levelid.some \/ ~w.game_ending_flag.some THEN FALSE
    ELSE IF IsAngelIsland1(w.levelid) THEN FALSE
    ELSE IF SkySanctuaryRule(w, s) THEN TRUE
    ELSE IF ~w.time_bonus.some \/ ~w.end_of_level_flag.some THEN FALSE
    ELSE IF DeathEggRule(w, s) THEN TRUE
    ELSE /\ w.levelid.old # w.levelid.current
         /\ ZoneSetting(w.levelid.old, s, w.end_of_level_flag)

\* SaveSlotBecameNew without the test of the previous status
SaveSlotBecameNew_NoOld(save_slot) == save_slot.current = SAVESLOTSTATE_NEWGAME

\* the save-slot status test of reset (lib.rs 334)
SaveSlotBecameNew(save_slot) ==
    /\ save_slot.old # SAVESLOTSTATE_NEWGAME
    /\ save_slot.current = SAVESLOTSTATE_NEWGAME

\* fn reset (lib.rs 324-339)
reset(w, s) ==
    IF ~w.save_select.some THEN FALSE
    ELSE IF w.save_select.current = 0
    THEN IF ~w.state.some THEN FALSE
         ELSE IF LoadingFromSaveSelect(w.state)
         THEN s.reset
         ELSE FALSE
    ELSE IF /\ w.save_select.current > 0
            /\ w.save_select.current <= 8
            /\ ~changed(w.save_select)
    THEN IF ~w.save_slot.some THEN FALSE
         ELSE IF SaveSlotBecameNew(w.save_slot) THEN s.reset
         ELSE FALSE
    ELSE FALSE

(***************************************************************************)
(* The host timer behind asr::timer.  reset() returns a started timer to   *)
(* NotRunning, split() acts on a running timer only and ends the run on    *)
(* the last segment, start() starts a timer that is not running.           *)
(***************************************************************************)
TimerReset(t) == "NotRunning"

TimerSplit(t, last_segment) ==
    IF t = "Running" THEN (IF last_segment THEN "Ended" ELSE "Running") ELSE t

TimerStart(t) == IF t = "NotRunning" THEN "Running" ELSE t

\* MainBody with split tried before reset
MainBody_SplitFirst(w, s, t, last_segment) ==
    LET timer_state == t
        r1 == IF timer_state = "Running" \/ timer_state = "Paused"
              THEN IF split(w, s)
                   THEN [timer |-> TimerSplit(t, last_segment),
                         issued |-> <<"split">>]
                   ELSE IF reset(w, s)
                   THEN [timer |-> TimerReset(t), issued |-> <<"reset">>]
                   ELSE [timer |-> t, issued |-> <<>>]
              ELSE [timer |-> t, issued |-> <<>>]
        r2 == IF r1.timer = "NotRunning" /\ start(w, s)
              THEN [timer |-> TimerStart(r1.timer),
                    issued |-> Append(r1.issued, "start")]
              ELSE r1
    IN  [timer |-> r2.timer, seen0 |-> timer_state, seen1 |-> r1.timer,
         issued |-> r2.issued]

\* MainBody with reset and split tried in every timer state but Ended
MainBody_NotEnded(w, s, t, last_segment) ==
    LET timer_state == t
        r1 == IF timer_state # "Ended"
              THEN IF reset(w, s)
                   THEN [timer |-> TimerReset(t), issued |-> <<"reset">>]
                   ELSE IF split(w, s)
                   THEN [timer |-> TimerSplit(t, last_segment),
                         issued |-> <<"split">>]
                   ELSE [timer |-> t, issued |-> <<>>]
              ELSE [timer |-> t, issued |-> <<>>]
        r2 == IF r1.timer = "NotRunning" /\ start(w, s)
              THEN [timer |-> TimerStart(r1.timer),
                    issued |-> Append(r1.issued, "start")]
              ELSE r1
    IN  [timer |-> r2.timer, seen0 |-> timer_state, seen1 |-> r1.timer,
         issued |-> r2.issued]

\* MainBody testing start against the state read before the reset/split step
MainBody_CachedState(w, s, t, last_segment) ==
    LET timer_state == t
        r1 == IF timer_state = "Running" \/ timer_state = "Paused"
              THEN IF reset(w, s)
                   THEN [timer |-> TimerReset(t), issued |-> <<"reset">>]
                   ELSE IF split(w, s)
                   THEN [timer |-> TimerSplit(t, last_segment),
                         issued |-> <<"split">>]
                   ELSE [timer |-> t, issued |-> <<>>]
              ELSE [timer |-> t, issued |-> <<>>]
        r2 == IF timer_state = "NotRunning" /\ start(w, s)
              THEN [timer |-> TimerStart(r1.timer),
                    issued |-> Append(r1.issued, "start")]
              ELSE r1
    IN  [timer |-> r2.timer, seen0 |-> timer_state, seen1 |-> r1.timer,
         issued |-> r2.issued]

\* The body of the tick loop after update_loop (lib.rs 49-60): seen0 and
\* seen1 are the two results of timer::state(), issued the timer calls made.
MainBody(w, s, t, last_segment) ==
    LET timer_state == t
        r1 == IF timer_state = "Running" \/ timer_state = "Paused"
              THEN IF reset(w, s)
                   THEN [timer |-> TimerReset(t), issued |-> <<"reset">>]
                   ELSE IF split(w, s)
                   THEN [timer |-> TimerSplit(t, last_segment),
                         issued |-> <<"split">>]
                   ELSE [timer |-> t, issued |-> <<>>]
              ELSE [timer |-> t, issued |-> <<>>]
        r2 == IF r1.timer = "NotRunning" /\ start(w, s)
              THEN [timer |-> TimerStart(r1.timer),
                    issued |-> Append(r1.issued, "start")]
              ELSE r1
    IN  [timer |-> r2.timer, seen0 |-> timer_state, seen1 |-> r1.timer,
         issued |-> r2.issued]

\* Whether a split of this tick is the run's last one is the host's to say;
\* only a split of a running timer asks.
SplitEnds(w, s, t) ==
    IF t = "Running" /\ ~reset(w, s) /\ split(w, s) THEN BOOLEAN ELSE {FALSE}

\* No tick has run since the attachment; again tells an attachment that
\* follows a closed process from the first one.
NoTick(again) ==
    [ n |-> 0, again |-> again, seen0 |-> "NotRunning", seen1 |-> "NotRunning",
      issued |-> <<>>, read |-> NoRead ]

(***************************************************************************)
(* Memory images a tick can read.                                          *)
(***************************************************************************)
Prefix(seq, n) == { seq[i] : i \in 1..n }

\* one value in every save slot
Uniform(b) == [i \in 1..8 |-> <<b>>]

Image(st, ss, slots, zsel, code, started, eol, ge, tb) ==
    [ state |-> st, save_select |-> ss, save_slots |-> slots,
      zone_selects |-> zsel, act |-> <<code[1]>>, zone |-> <<code[2]>>,
      level_started |-> started, end_of_level |-> eol, game_ending |-> ge,
      time_bonus |-> tb ]

\* every read fails
FailImage ==
    [ state |-> <<>>, save_select |-> <<>>, save_slots |-> [i \in 1..8 |-> <<>>],
      zone_selects |-> [i \in 1..8 |-> <<>>], act |-> <<>>, zone |-> <<>>,
      level_started |-> <<>>, end_of_level |-> <<>>, game_ending |-> <<>>,
      time_bonus |-> <<>> ]

\* raw state bytes: save select, loading, in game, 0, special stage
StateSamples == << <<76>>, <<140>>, <<12>>, <<0>>, <<52>> >>

\* save-slot selection bytes
SaveSelectSamples == << <<0>>, <<1>>, <<9>>, <<8>>, <<128>> >>

\* save-slot status tables: new game, in progress, complete, slot 1 differs
SaveSlotSamples ==
    << Uniform(128), Uniform(0), Uniform(1),
       [i \in 1..8 |-> IF i = 1 THEN <<2>> ELSE <<128>>] >>

\* zone-selection tables
ZoneSelectSamples == << Uniform(0), Uniform(1), Uniform(2) >>

\* flag bytes: clear and set
FlagBytes == { <<0>>, <<1>> }

\* time-bonus bytes in address order (big-endian 0, 5, 256)
TimeBonusSamples == << <<0, 0>>, <<0, 5>>, <<1, 0>> >>

\* <<act_byte, zone_byte>>: codes 1, 10, 100, 0, 111
SchedCodeSamples == << <<1, 0>>, <<0, 1>>, <<0, 10>>, <<0, 0>>, <<1, 11>> >>

\* <<act_byte, zone_byte>>: codes 0, 111, 1, 1281 (leaves u8), 131, 100, 5, 230
LevelCodeSamples ==
    << <<0, 0>>, <<1, 11>>, <<1, 0>>, <<1, 128>>, <<1, 13>>, <<0, 10>>,
       <<5, 0>>, <<0, 23>> >>

NSchedState == 2
NSchedCode == 2

\* the images of the scheduling specification (no save slot selected), and
\* the failed read
SchedImages ==
    { Image(st, <<0>>, Uniform(0), Uniform(0), code, <<0>>, <<0>>, <<0>>, <<0, 0>>) :
        st \in Prefix(StateSamples, NSchedState),
        code \in Prefix(SchedCodeSamples, NSchedCode) }
    \cup {FailImage}

NMenuState == 3
NMenuSelect == 3
NMenuSlot == 2
NMenuZone == 2

\* the images of the menus: no level loaded
MenuImages ==
    { Image(st, ss, slots, zsel, <<0, 0>>, <<0>>, <<0>>, <<0>>, <<0, 0>>) :
        st \in Prefix(StateSamples, NMenuState),
        ss \in Prefix(SaveSelectSamples, NMenuSelect),
        slots \in Prefix(SaveSlotSamples, NMenuSlot),
        zsel \in Prefix(ZoneSelectSamples, NMenuZone) }

NLevelCode == 6
NLevelBonus == 2

\* The byte at 0xF711 is read under lookup key 0 only (lib.rs 205): there
\* both kinds of value are sampled, elsewhere one value stands for all.
StartedBytes(code) ==
    IF CompositeCode(code[1], code[2]) = 0 THEN FlagBytes ELSE { <<1>> }

\* the images of a level being played (the raw state is in-game), and the
\* failed read
LevelImages ==
    UNION { { Image(<<STATE_INGAME>>, <<0>>, Uniform(0), Uniform(0), code,
                    started, eol, ge, tb) :
                started \in StartedBytes(code),
                eol \in FlagBytes,
                ge \in FlagBytes,
                tb \in Prefix(TimeBonusSamples, NLevelBonus) } :
            code \in Prefix(LevelCodeSamples, NLevelCode) }
    \cup {FailImage}

MaxActByte == 1
MaxZoneByte == 26

\* the images that walk the composite-code table: every act and zone byte
\* up to the bounds, which covers every key of the table and sums above 255
TableImages ==
    UNION { { Image(<<STATE_INGAME>>, <<0>>, Uniform(0), Uniform(0), code,
                    started, <<0>>, <<0>>, <<0, 0>>) :
                started \in StartedBytes(code) } :
            code \in (0..MaxActByte) \X (0..MaxZoneByte) }

\* toggles the user may have switched off
ToggleSamples == << "reset", "start_nosave", "angel_island_2" >>

NToggles == 1

SettingsSet == { SettingsWith(D) : D \in SUBSET Prefix(ToggleSamples, NToggles) }

(***************************************************************************)
(* The actions of main (lib.rs 23-66).                                     *)
(***************************************************************************)
Init ==
    /\ pc = "attach"
    /\ watchers = WatchersDefault
    /\ settings \in SettingsSet
    /\ timer \in TimerState
    /\ tick = NoTick(FALSE)

\* Attach with the watchers created once, outside the attach loop
Attach_KeepWatchers ==
    /\ pc = "attach"
    /\ pc' = "wram"
    /\ UNCHANGED <<watchers, settings, timer, tick>>

\* Process::attach succeeds; the until_closes block creates fresh watchers
Attach ==
    /\ pc = "attach"
    /\ pc' = "wram"
    /\ watchers' = WatchersDefault
    /\ UNCHANGED <<settings, timer, tick>>

\* the retry that finds the 0x521000 memory range succeeds
FindWram ==
    /\ pc = "wram"
    /\ pc' = "loop"
    /\ UNCHANGED <<watchers, settings, timer, tick>>

\* one pass of the tick loop reading image mem (lib.rs 47-62)
Tick(mem) ==
    /\ pc = "loop"
    /\ \E last_segment \in SplitEnds(update_loop(watchers, mem), settings, timer) :
         LET w == update_loop(watchers, mem)
             r == MainBody(w, settings, timer, last_segment)
         IN  /\ watchers' = w
             /\ timer' = r.timer
             /\ tick' = [ n |-> IF tick.n = 0 THEN 1 ELSE 2, again |-> tick.again,
                          seen0 |-> r.seen0, seen1 |-> r.seen1,
                          issued |-> r.issued, read |-> Reads(mem) ]
    /\ UNCHANGED <<pc, settings>>

\* a build with overflow checks: the composite code leaves u8 and the tick
\* panics inside update_loop, before any watcher is updated
TickPanic(mem) ==
    /\ pc = "loop"
    /\ Overflows(ReadU8(mem.act), ReadU8(mem.zone))
    /\ pc' = "panicked"
    /\ UNCHANGED <<watchers, settings, timer, tick>>

\* the game closes: until_closes ends the block and drops its watchers,
\* main loops back to attach
ProcessCloses ==
    /\ pc \in {"wram", "loop"}
    /\ pc' = "attach"
    /\ tick' = NoTick(TRUE)
    /\ UNCHANGED <<watchers, settings, timer>>

\* the user (or the host) changes the timer between two ticks
HostTimer ==
    /\ \E t \in TimerState \ {timer} : timer' = t
    /\ UNCHANGED <<pc, watchers, settings, tick>>

Next ==
    \/ Attach
    \/ FindWram
    \/ ProcessCloses
    \/ HostTimer
    \/ \E mem \in SchedImages : Tick(mem)

\* the whole loop of main, on a few images
Spec == Init /\ [][Next]_vars

NextMenu ==
    \/ Attach
    \/ FindWram
    \/ \E mem \in MenuImages : Tick(mem)

\* default settings, the timer not started
InitMenu ==
    /\ Init
    /\ settings = SettingsWith({})
    /\ timer = "NotRunning"

\* one attachment, in the menus
SpecMenu == InitMenu /\ [][NextMenu]_vars

NextLevel ==
    \/ Attach
    \/ FindWram
    \/ \E mem \in LevelImages : Tick(mem)
    \/ \E mem \in LevelImages : TickPanic(mem)

\* default settings, a run under way
InitLevel ==
    /\ Init
    /\ settings = SettingsWith({})
    /\ timer = "Running"

\* one attachment, in the levels
SpecLevel == InitLevel /\ [][NextLevel]_vars

NextTable ==
    \/ Attach
    \/ FindWram
    \/ \E mem \in TableImages : Tick(mem)
    \/ \E mem \in TableImages : TickPanic(mem)

\* one attachment, walking the composite-code table
SpecTable == InitLevel /\ [][NextTable]_vars

(***************************************************************************)
(* Properties.                                                             *)
(***************************************************************************)
\* the last tick issued timer call c
Issued(c) == \E i \in DOMAIN tick.issued : tick.issued[i] = c

\* the filtered state went from save select to loading in the last tick
SaveSelectToLoading(w) ==
    w.state.old = STATE_SAVESELECT /\ w.state.current = STATE_LOADING

\* configurations: every choice of the listed toggles, the rest enabled
Configs(toggles) == { SettingsWith(D) : D \in SUBSET toggles }

AnyConfig ==
    Configs({ "reset", "start_nosave", "start_new_game_plus", "angel_island_2",
              "sky_sanctuary", "death_egg_2" })

\* C1: in a tick that saw the timer Running or Paused, reset returning true
\* means reset() is issued and split() is not, and split() is issued only
\* when reset returned false and split returned true; no tick issues both.
C1_ResetBeforeSplit ==
    tick.n > 0 =>
        /\ tick.seen0 \in {"Running", "Paused"} =>
              /\ reset(watchers, settings) => Issued("reset") /\ ~Issued("split")
              /\ Issued("split") =>
                    ~reset(watchers, settings) /\ split(watchers, settings)
        /\ ~(Issued("reset") /\ Issued("split"))

\* a running tick in which reset and split both return true issued reset
C1_Witness ==
    /\ tick.n > 0
    /\ tick.seen0 = "Running"
    /\ reset(watchers, settings)
    /\ split(watchers, settings)
    /\ tick.issued[1] = "reset"

\* C2: start() is issued only when timer::state() just returned NotRunning,
\* reset() and split() only in a tick that saw the timer Running or Paused,
\* and a tick that begins NotRunning issues neither of them.
C2_CallsMatchTimerState ==
    tick.n > 0 =>
        /\ Issued("start") => tick.seen1 = "NotRunning"
        /\ Issued("reset") \/ Issued("split") =>
              tick.seen0 \in {"Running", "Paused"}
        /\ tick.seen0 = "NotRunning" => ~Issued("reset") /\ ~Issued("split")

\* a tick that began NotRunning with reset and split both true issued start only
C2_Witness ==
    /\ tick.n > 0
    /\ tick.seen0 = "NotRunning"
    /\ reset(watchers, settings)
    /\ split(watchers, settings)
    /\ tick.issued = <<"start">>

\* C3: on the first tick after every attachment start, split and reset
\* return false under every configuration and no timer call is issued.
C3_FirstTickSilent ==
    tick.n = 1 =>
        /\ tick.issued = <<>>
        /\ \A s \in AnyConfig \cup {settings} :
              ~start(watchers, s) /\ ~split(watchers, s) /\ ~reset(watchers, s)

\* the first tick of a re-attachment sampled loading in a level other than
\* Angel Island Act 1 while the timer was running
C3_Witness ==
    /\ tick.n = 1
    /\ tick.again
    /\ tick.seen0 = "Running"
    /\ watchers.state.current = STATE_LOADING
    /\ watchers.levelid.current # "AngelIslandAct1"

\* the configurations of the zone toggles the sampled levels can consult
LevelConfigs ==
    Configs({ "angel_island_1", "angel_island_2", "sky_sanctuary", "death_egg_2" })

\* the configurations of the four start toggles
StartConfigs ==
    Configs({ "start_nosave", "start_clean_save", "start_no_clean_save",
              "start_new_game_plus" })

\* the time bonus went from a nonzero value to 0 in the last tick
BonusDropped(w) == w.time_bonus.old # 0 /\ w.time_bonus.current = 0

\* C4: split never returns true while the current zone is Angel Island
\* Act 1, whatever the previous zone, the flags, the time bonus and the
\* configuration.
C4_NoSplitInAngelIsland1 ==
    (watchers.levelid.some /\ watchers.levelid.current = "AngelIslandAct1") =>
        \A s \in LevelConfigs : ~split(watchers, s)

\* Angel Island Act 1 reached from Death Egg Act 2 as the time bonus drops
\* to zero with the end-of-level flag set
C4_Witness ==
    /\ watchers.levelid.some
    /\ watchers.levelid.current = "AngelIslandAct1"
    /\ watchers.levelid.old = "DeathEggAct2"
    /\ BonusDropped(watchers)
    /\ watchers.end_of_level_flag.current

\* C5 as stated: previous zone Death Egg Act 2, the time bonus dropping
\* from nonzero to 0, the end-of-level flag set and the Death Egg Act 2
\* toggle enabled make split return true, whatever the current zone.
C5_DeathEggBonusSplits ==
    ( /\ watchers.levelid.some
      /\ watchers.levelid.old = "DeathEggAct2"
      /\ BonusDropped(watchers)
      /\ watchers.end_of_level_flag.current ) =>
        \A s \in LevelConfigs : s.death_egg_2 => split(watchers, s)

\* C5 amended: the same, provided the current zone is not Angel Island
\* Act 1.
C5_DeathEggBonusSplitsOutsideAngelIsland1 ==
    ( /\ watchers.levelid.some
      /\ watchers.levelid.old = "DeathEggAct2"
      /\ watchers.levelid.current # "AngelIslandAct1"
      /\ BonusDropped(watchers)
      /\ watchers.end_of_level_flag.current ) =>
        \A s \in LevelConfigs : s.death_egg_2 => split(watchers, s)

\* the bonus drops in Death Egg Act 2 with the zone unchanged and the
\* end-of-level flag just set, and split returns true
C5_Witness ==
    /\ watchers.levelid.some
    /\ watchers.levelid.old = "DeathEggAct2"
    /\ watchers.levelid.current = "DeathEggAct2"
    /\ BonusDropped(watchers)
    /\ watchers.end_of_level_flag.current
    /\ ~watchers.end_of_level_flag.old
    /\ split(watchers, settings)

\* C6: on a save-select to loading transition with a save slot in [1,8]
\* selected and zone selection 0, start returns the toggle chosen by the
\* previous save-slot status: in progress, new game, or any other.
C6_StartBySaveSlotStatus ==
    ( /\ watchers.state.some
      /\ SaveSelectToLoading(watchers)
      /\ watchers.save_select.current \in 1..8
      /\ watchers.zone_select.current = 0 ) =>
        \A s \in StartConfigs :
            start(watchers, s) =
                CASE watchers.save_slot.old = SAVESLOTSTATE_INPROGRESS ->
                        s.start_no_clean_save
                  [] watchers.save_slot.old = SAVESLOTSTATE_NEWGAME ->
                        s.start_clean_save
                  [] OTHER -> s.start_new_game_plus

\* C7: on a save-select to loading transition with save-slot selection 0,
\* start returns exactly the 'start, no save' toggle.
C7_StartNoSave ==
    ( /\ watchers.state.some
      /\ SaveSelectToLoading(watchers)
      /\ watchers.save_select.current = 0 ) =>
        \A s \in StartConfigs : start(watchers, s) = s.start_nosave

\* such a transition, coming from a selected slot with a nonzero zone
\* selection and a new-game status
C7_Witness ==
    /\ watchers.state.some
    /\ SaveSelectToLoading(watchers)
    /\ watchers.save_select.current = 0
    /\ watchers.save_select.old # 0
    /\ watchers.zone_select.current # 0
    /\ watchers.save_slot.old = SAVESLOTSTATE_NEWGAME

\* C8: start returns true only on a save-select to loading transition with
\* save-slot selection 0, or in [1,8] with zone selection 0.
C8_StartOnlyInListedCases ==
    watchers.state.some =>
        \A s \in StartConfigs :
            start(watchers, s) =>
                /\ SaveSelectToLoading(watchers)
                /\ \/ watchers.save_select.current = 0
                   \/ /\ watchers.save_select.current \in 1..8
                      /\ watchers.zone_select.current = 0

\* the two cases in which reset consults its toggle
ResetCase(w) ==
    \/ w.save_select.current = 0 /\ SaveSelectToLoading(w)
    \/ /\ w.save_select.current \in 1..8
       /\ w.save_select.old = w.save_select.current
       /\ w.save_slot.old # SAVESLOTSTATE_NEWGAME
       /\ w.save_slot.current = SAVESLOTSTATE_NEWGAME

\* C9: reset returns true iff the reset toggle is enabled and either no
\* slot is selected and the filtered state went from save select to
\* loading, or a slot in [1,8] stayed selected and its status became the
\* new-game sentinel.
C9_ResetIff ==
    watchers.state.some =>
        \A s \in Configs({"reset"}) :
            reset(watchers, s) <=> (s.reset /\ ResetCase(watchers))

\* a selected slot whose status becomes new game while the state does not
\* go from save select to loading
C9_Witness ==
    /\ watchers.state.some
    /\ watchers.save_select.current \in 1..8
    /\ ~SaveSelectToLoading(watchers)
    /\ reset(watchers, settings)

\* the toggle of each zone; Ending has none
ZoneToggle ==
    [ AngelIslandAct1 |-> "angel_island_1", AngelIslandAct2 |-> "angel_island_2",
      HydrocityAct1 |-> "hydrocity_1", HydrocityAct2 |-> "hydrocity_2",
      MarbleGardenAct1 |-> "marble_garden_1", MarbleGardenAct2 |-> "marble_garden_2",
      CarnivalNightAct1 |-> "carnival_night_1",
      CarnivalNightAct2 |-> "carnival_night_2",
      IceCapAct1 |-> "ice_cap_1", IceCapAct2 |-> "ice_cap_2",
      LaunchBaseAct1 |-> "launch_base_1", LaunchBaseAct2 |-> "launch_base_2",
      MushroomHillAct1 |-> "mushroom_hill_1", MushroomHillAct2 |-> "mushroom_hill_2",
      FlyingBatteryAct1 |-> "flying_battery_1",
      FlyingBatteryAct2 |-> "flying_battery_2",
      SandopolisAct1 |-> "sandopolis_1", SandopolisAct2 |-> "sandopolis_2",
      LavaReefAct1 |-> "lava_reef_1", LavaReefAct2 |-> "lava_reef_2",
      HiddenPalace |-> "hidden_palace", SkySanctuary |-> "sky_sanctuary",
      DeathEggAct1 |-> "death_egg_1", DeathEggAct2 |-> "death_egg_2",
      DoomsDay |-> "doomsday" ]

\* the Sky Sanctuary ending rule applies
SkyEndingApplies(w, s) ==
    /\ s.sky_sanctuary
    /\ w.levelid.current = "SkySanctuary"
    /\ w.game_ending_flag.current
    /\ ~w.game_ending_flag.old

\* the Death Egg Act 2 time-bonus rule applies
DeathEggBonusApplies(w, s) ==
    /\ s.death_egg_2
    /\ w.levelid.old = "DeathEggAct2"
    /\ BonusDropped(w)
    /\ w.end_of_level_flag.current

\* the zone changed and the previous zone's toggle is enabled; leaving
\* Angel Island Act 1 also needs the previous end-of-level flag
GenericRule(w, s) ==
    /\ w.levelid.old # w.levelid.current
    /\ w.levelid.old \in DOMAIN ZoneToggle
    /\ s[ZoneToggle[w.levelid.old]]
    /\ w.levelid.old = "AngelIslandAct1" => w.end_of_level_flag.old

\* C10: outside Angel Island Act 1 and with neither special rule applying,
\* split returns true iff the zone changed and the previous zone's toggle
\* is enabled (with the previous end-of-level flag for Angel Island Act 1);
\* a previous zone without a toggle gives false.
C10_GenericSplit ==
    watchers.levelid.some =>
        \A s \in LevelConfigs :
            ( /\ watchers.levelid.current # "AngelIslandAct1"
              /\ ~SkyEndingApplies(watchers, s)
              /\ ~DeathEggBonusApplies(watchers, s) ) =>
                (split(watchers, s) <=> GenericRule(watchers, s))

\* leaving Angel Island Act 1 with the end-of-level flag set before and
\* cleared now: split returns true
C10_Witness ==
    /\ watchers.levelid.some
    /\ watchers.levelid.old = "AngelIslandAct1"
    /\ watchers.levelid.current = "AngelIslandAct2"
    /\ watchers.end_of_level_flag.old
    /\ ~watchers.end_of_level_flag.current
    /\ split(watchers, settings)

\* C11: with the Sky Sanctuary toggle enabled, the current zone Sky
\* Sanctuary and the game-ending flag going from false to true in the
\* tick, split returns true whatever the zone change, the time bonus and
\* the end-of-level flag; while the flag stays true with the zone
\* unchanged, split does not return true again.
C11_SkySanctuaryEnding ==
    (tick.n > 0 /\ watchers.levelid.current = "SkySanctuary") =>
        \A s \in LevelConfigs :
            /\ ( /\ s.sky_sanctuary
                 /\ watchers.game_ending_flag.current
                 /\ ~watchers.game_ending_flag.old ) => split(watchers, s)
            /\ ( /\ ~changed(watchers.levelid)
                 /\ watchers.game_ending_flag.current
                 /\ watchers.game_ending_flag.old ) => ~split(watchers, s)

\* the game-ending flag rises in Sky Sanctuary, the zone unchanged, and
\* split returns true
C11_Witness ==
    /\ tick.n > 0
    /\ watchers.levelid.current = "SkySanctuary"
    /\ ~changed(watchers.levelid)
    /\ watchers.game_ending_flag.current
    /\ ~watchers.game_ending_flag.old
    /\ split(watchers, settings)

\* C12: start is tested against the timer state left by the reset/split
\* step: a tick that begins with the timer Running or Paused, save-slot
\* selection 0, the filtered state going from save select to loading, and
\* the reset and "start, no save" toggles enabled issues reset() and then
\* start(), and no split().
C12_ResetThenStart ==
    ( /\ tick.n > 0
      /\ tick.seen0 \in {"Running", "Paused"}
      /\ watchers.save_select.current = 0
      /\ SaveSelectToLoading(watchers)
      /\ settings.reset
      /\ settings.start_nosave ) =>
        /\ tick.issued = <<"reset", "start">>
        /\ tick.seen1 = "NotRunning"

\* a paused timer is reset and started again by one tick
C12_Witness ==
    /\ tick.n > 0
    /\ tick.seen0 = "Paused"
    /\ watchers.save_select.current = 0
    /\ SaveSelectToLoading(watchers)
    /\ settings.reset
    /\ settings.start_nosave
    /\ tick.issued = <<"reset", "start">>
    /\ timer = "Running"

\* the zone watcher's current value before the last tick (Angel Island
\* Act 1 if the tick was the first of the attachment)
ZoneBefore ==
    IF tick.n = 1 THEN "AngelIslandAct1" ELSE watchers.levelid.old

\* C13: a tick that reads act byte 0 and zone byte 0 (composite code 0)
\* leaves the zone watcher's current value as it was before the tick when
\* the level-started byte is 0, and makes it Angel Island Act 1 when that
\* byte is nonzero, after any earlier ticks.
C13_CodeZeroKeepsZone ==
    (tick.n > 0 /\ tick.read.act = 0 /\ tick.read.zone = 0) =>
        /\ tick.read.level_started = 0 =>
               watchers.levelid.current = ZoneBefore
        /\ tick.read.level_started # 0 =>
               watchers.levelid.current = "AngelIslandAct1"

\* Hidden Palace kept by a tick that read code 0 with no level started
C13_Witness ==
    /\ tick.n = 2
    /\ tick.read.act = 0
    /\ tick.read.zone = 0
    /\ tick.read.level_started = 0
    /\ watchers.levelid.old = "HiddenPalace"
    /\ watchers.levelid.current = "HiddenPalace"

\* the keys of the composite-code table
TableKeys ==
    { 0, 1, 10, 11, 20, 21, 30, 31, 40, 41, 50, 51, 60, 61, 70, 71, 80, 81,
      90, 91, 100, 101, 110, 111, 120, 131, 220, 221, 230 }

\* the integer act_byte + zone_byte*10 of the last tick's reads
TrueSum == tick.read.act + tick.read.zone * 10

\* C14 as stated: the lookup key is the integer act_byte + zone_byte*10:
\* a tick whose sum is not a key of the table leaves the zone watcher's
\* current value as it was, and no tick is aborted by the 8-bit addition.
C14_KeyIsTrueSum ==
    /\ pc # "panicked"
    /\ (tick.n > 0 /\ TrueSum \notin TableKeys) =>
           watchers.levelid.current = ZoneBefore

\* a tick that follows another tick of the attachment and reads the same
\* act and zone bytes as that one
SamePairTick ==
    /\ pc = "loop" /\ pc' = "loop"
    /\ tick.n > 0
    /\ <<watchers, tick>>' # <<watchers, tick>>
    /\ tick'.read.act = tick.read.act
    /\ tick'.read.zone = tick.read.zone

\* C15 as stated: a tick that reads the same (act, zone) pair as the tick
\* before it leaves the zone watcher with current = previous, for every
\* pair and every value of the level-started flag on the two ticks.
C15_SamePairSameZone ==
    [][ SamePairTick => ~changed(watchers.levelid)' ]_vars

\* the level-started byte is zero on both ticks or nonzero on both
SameStarted ==
    (tick.read.level_started = 0) = (tick'.read.level_started = 0)

\* C15 amended: the same, for every pair whose lookup key is not 0
\* whatever the level-started flag, and for a pair whose key is 0 when the
\* flag is zero on both ticks or nonzero on both.
C15_SamePairSameZoneUnlessStarted ==
    [][ ( /\ SamePairTick
          /\ CompositeCode(tick.read.act, tick.read.zone) = 0 => SameStarted )
        => ~changed(watchers.levelid)' ]_vars

\* Hidden Palace's code read again with the zone already Hidden Palace
C15_Witness ==
    /\ tick.n = 2
    /\ tick.read.act = 1
    /\ tick.read.zone = 22
    /\ watchers.levelid.old = "HiddenPalace"
    /\ watchers.levelid.current = "HiddenPalace"

\* the zone each lookup key gives once a level has started, "unmapped" for
\* a key that keeps the previous zone
ZoneOfCode == [ code \in 0..255 |-> LevelOfCode(code, 1, "unmapped") ]

\* the lookup keys of a zone
CodesOf == [ l \in Levels |-> { code \in 0..255 : ZoneOfCode[code] = l } ]

\* the last tick looked up a key of the table, with a level started if the
\* key is 0
TableHit ==
    /\ tick.n > 0
    /\ CompositeCode(tick.read.act, tick.read.zone) \in TableKeys
    /\ CompositeCode(tick.read.act, tick.read.zone) = 0 =>
           tick.read.level_started # 0

\* no key gives two zones: a tick that looks a key up leaves the zone
\* watcher at that key's one zone, whatever the zone was before
OneZonePerCode ==
    TableHit =>
        /\ watchers.levelid.current =
               ZoneOfCode[CompositeCode(tick.read.act, tick.read.zone)]
        /\ CompositeCode(tick.read.act, tick.read.zone) \in
               CodesOf[watchers.levelid.current]

\* C16 as stated: every one of the 25 zones and Ending has at least one
\* key, Hidden Palace has two keys, Death Egg Act 2 has two keys, and no
\* key gives two zones.
C16_TableCoversAndAliases ==
    /\ \A l \in Levels : CodesOf[l] # {}
    /\ Cardinality(CodesOf["HiddenPalace"]) = 2
    /\ Cardinality(CodesOf["DeathEggAct2"]) = 2
    /\ OneZonePerCode

\* C16 amended: every one of the 25 zones and Ending has at least one key;
\* Hidden Palace has the one key 221; Lava Reef Act 2 (91, 220), Sky
\* Sanctuary (100, 101) and Death Egg Act 2 (111, 230) have two keys each
\* and every other zone one; no key gives two zones.
C16_TableCoversAndAliasesLavaReef ==
    /\ \A l \in Levels : CodesOf[l] # {}
    /\ CodesOf["HiddenPalace"] = {221}
    /\ CodesOf["LavaReefAct2"] = {91, 220}
    /\ CodesOf["SkySanctuary"] = {100, 101}
    /\ CodesOf["DeathEggAct2"] = {111, 230}
    /\ \A l \in Levels \ {"LavaReefAct2", "SkySanctuary", "DeathEggAct2"} :
           Cardinality(CodesOf[l]) = 1
    /\ OneZonePerCode

\* key 220 read in Hidden Palace: the zone becomes Lava Reef Act 2
C16_Witness ==
    /\ tick.n > 0
    /\ tick.read.act = 0
    /\ tick.read.zone = 22
    /\ watchers.levelid.old = "HiddenPalace"
    /\ watchers.levelid.current = "LavaReefAct2"

\* the filtered state watcher's current value before the last tick (0 if
\* the tick was the first of the attachment)
StateBefore == IF tick.n = 1 THEN 0 ELSE watchers.state.old

\* C17: after every tick the filtered state's current value is the raw
\* state byte if that byte is not the in-game value, and otherwise the
\* value it had before the tick; so neither the previous nor the current
\* filtered state is ever the in-game value.
C17_FilteredState ==
    /\ tick.n > 0 =>
           watchers.state.current =
               IF tick.read.cstate # STATE_INGAME
               THEN tick.read.cstate ELSE StateBefore
    /\ watchers.state.some =>
           /\ watchers.state.old # STATE_INGAME
           /\ watchers.state.current # STATE_INGAME

\* save select kept through an in-game tick
C17_Witness ==
    /\ tick.n = 2
    /\ tick.read.cstate = STATE_INGAME
    /\ watchers.state.old = STATE_SAVESELECT
    /\ watchers.state.current = STATE_SAVESELECT

\* the save-slot status and zone-selection watchers' current values before
\* the last tick (0 if the tick was the first of the attachment)
SaveSlotBefore == IF tick.n = 1 THEN 0 ELSE watchers.save_slot.old
ZoneSelectBefore == IF tick.n = 1 THEN 0 ELSE watchers.zone_select.old

\* C18: the save-slot status watcher takes the byte of the selected slot
\* only on a tick whose raw state is not in-game and whose selection index
\* is in [1,8], the zone-selection watcher only on a tick whose selection
\* index is in [1,8]; on every other tick each is updated with its own
\* previous current value and has not changed.
C18_PerSlotReads ==
    tick.n > 0 =>
        /\ IF tick.read.cstate # STATE_INGAME
              /\ SlotInRange(tick.read.save_select)
           THEN watchers.save_slot.current = tick.read.save_slot
           ELSE /\ watchers.save_slot.current = SaveSlotBefore
                /\ ~changed(watchers.save_slot)
        /\ IF SlotInRange(tick.read.save_select)
           THEN watchers.zone_select.current = tick.read.zone_select
           ELSE /\ watchers.zone_select.current = ZoneSelectBefore
                /\ ~changed(watchers.zone_select)

\* an in-game tick with slot 1 selected keeps the status "in progress"
\* although the slot's byte is "new game"
C18_Witness ==
    /\ tick.n = 2
    /\ tick.read.cstate = STATE_INGAME
    /\ tick.read.save_select = 1
    /\ tick.read.save_slot = SAVESLOTSTATE_NEWGAME
    /\ watchers.save_slot.old = SAVESLOTSTATE_INPROGRESS
    /\ watchers.save_slot.current = SAVESLOTSTATE_INPROGRESS

\* C19: a tick in which every read fails issues no timer call: start,
\* split and reset return false under every configuration, and the zone,
\* save-slot status and zone-selection watchers keep their values.
C19_FailedReadsAreSilent ==
    (tick.n > 0 /\ tick.read.failed) =>
        /\ \A s \in AnyConfig :
               /\ ~start(watchers, s)
               /\ ~split(watchers, s)
               /\ ~reset(watchers, s)
        /\ tick.issued = <<>>
        /\ watchers.levelid.current = ZoneBefore
        /\ watchers.save_slot.current = SaveSlotBefore
        /\ watchers.zone_select.current = ZoneSelectBefore

\* every read fails in Death Egg Act 2 with a time bonus on the counter:
\* the bonus reads as 0 and no split is issued
C19_Witness ==
    /\ tick.n = 2
    /\ tick.read.failed
    /\ watchers.levelid.old = "DeathEggAct2"
    /\ watchers.levelid.current = "DeathEggAct2"
    /\ BonusDropped(watchers)
    /\ tick.seen0 = "Running"
    /\ tick.issued = <<>>

\* a tick that follows another tick of the same attachment
NextTick ==
    /\ pc = "loop" /\ pc' = "loop"
    /\ tick.n > 0
    /\ <<watchers, tick>>' # <<watchers, tick>>

\* reset returned true by its save-slot status branch
ResetByStatus(w, s) == reset(w, s) /\ w.save_select.current # 0

\* reset returned true by its save-select to loading branch
ResetByLoading(w, s) == reset(w, s) /\ w.save_select.current = 0

\* the configurations of the toggles start and reset can return here
FiringConfigs == Configs({ "reset", "start_nosave", "start_new_game_plus" })

\* C20 as stated: neither start nor reset returns true on two consecutive
\* ticks of one attachment.
C20_NoConsecutiveStartOrReset ==
    [][ NextTick =>
          \A s \in FiringConfigs :
              /\ ~(start(watchers, s) /\ start(watchers', s))
              /\ ~(reset(watchers, s) /\ reset(watchers', s)) ]_vars

\* C20 amended: start never returns true on two consecutive ticks; reset
\* does so only by its save-slot status branch on the first and its
\* save-select to loading branch on the second; each transition to loading
\* and each change of the status to "new game" is seen on one tick only.
C20_OneFiringPerTransition ==
    [][ NextTick =>
          /\ \A s \in FiringConfigs :
                 /\ ~(start(watchers, s) /\ start(watchers', s))
                 /\ (reset(watchers, s) /\ reset(watchers', s)) =>
                        (ResetByStatus(watchers, s) /\ ResetByLoading(watchers', s))
          /\ ~(SaveSelectToLoading(watchers) /\ SaveSelectToLoading(watchers'))
          /\ ~( /\ SaveSlotBecameNew(watchers.save_slot)
                /\ SaveSlotBecameNew(watchers'.save_slot) ) ]_vars

\* loading follows save select as the selection leaves slot 1, whose
\* status is "new game": start and reset both return true on this tick
C20_Witness ==
    /\ tick.n = 2
    /\ SaveSelectToLoading(watchers)
    /\ watchers.save_select.old = 1
    /\ watchers.save_select.current = 0
    /\ watchers.save_slot.current = SAVESLOTSTATE_NEWGAME
    /\ start(watchers, settings)
    /\ reset(watchers, settings)

====
